---- MODULE Spec2Model ----
(***************************************************************************)
(* NutriSnap (nutrisnap_app.py): a Streamlit script.  Every user           *)
(* interaction re-runs the script top to bottom against the session state  *)
(* (profile, view, analysis), the widget state (uploaded file, meal        *)
(* description) and the SQLite table `meals`.  One action of this module   *)
(* is one user interaction together with the script run(s) it triggers,    *)
(* st.rerun() included.                                                    *)
(*                                                                         *)
(* Numbers.  Calories and grams are integers here (the code holds floats). *)
(* Energy targets are exact rationals scaled by 3200: BMR in quarter kcal, *)
(* activity multipliers in fortieths, goal multipliers in twentieths.      *)
(***************************************************************************)
EXTENDS Integers, Sequences, FiniteSets

VARIABLES
    columns,      \* columns of table meals in nutrition_log.db; {} = no table yet
    meals,        \* rows of table meals in rowid order; a row holds its stored cells
    today,        \* date.today(), as a day number
    profile,      \* st.session_state.profile
    view,         \* st.session_state.view
    analysis,     \* st.session_state.analysis; None = key absent
    up,           \* value of the file_uploader widget
    name_in,      \* value of the "Meal description" text_input widget
    navIndex,     \* the view whose position is the index= of the navigation radio
                  \* on screen ("none": no radio drawn)
    rendered,     \* the view function the last script run rendered ("none": no run yet)
    err,          \* the exception that stopped the last script run, or NoError
    target,       \* the daily target the dashboard displayed (0: no dashboard shown)
    event,        \* history: the last interaction or ledger call ("other": one
                  \* that no property names)
    lastRec,      \* history: the record handed to the last log_meal call
    totals        \* history: per day, running sums of appended minus deleted rows

vars == <<columns, meals, today, profile, view, analysis, up, name_in, navIndex,
          rendered, err, target, event, lastRec, totals>>

dbVars == <<columns, meals>>
sessionVars == <<profile, view, analysis, up, name_in, navIndex, rendered, err,
                 target>>

----------------------------------------------------------------------------
(* Bounds of the model *)

\* rows the controller may hold in the table
MaxMeals == 2
\* rows direct ledger calls may hold in the table
MaxLedger == 3
\* last day the clock reaches
MaxDay == 2
\* largest row id the table hands out while it may hold n rows
IdCap(n) == n + 1

----------------------------------------------------------------------------
(* Values *)

\* Python's None
None == [none |-> TRUE]

NoError == "none"

Days == 0..MaxDay

\* readings of datetime.now(), already split as strftime("%H:%M") prints them
Times == {<<12, 30>>}

Images == {[file |-> "a.jpg"], [file |-> "b.png"]}

NameInputs == {"", " ", "Lunch"}

\* str.strip on the inputs above
Strip(s) == IF s = " " THEN "" ELSE s

\* dict.get(k, default)
Get(d, k, default) == IF k \in DOMAIN d THEN d[k] ELSE default

\* Python truthiness of a session value: None and {} are falsy
Truthy(d) == d # None /\ DOMAIN d # {}

(* JSON objects the vision model may answer with *)
EstOatmeal ==
    [meal_name |-> "Oatmeal", calories |-> 300, protein_g |-> 10, carbs_g |-> 54,
     fat_g |-> 5, fiber_g |-> 8, sugar_g |-> 1, serving |-> "1 bowl"]
EstBare == [calories |-> 450, protein_g |-> 30, carbs_g |-> 40, fat_g |-> 20]
EstNoProtein ==
    [meal_name |-> "Soup", calories |-> 220, carbs_g |-> 30, fat_g |-> 7,
     fiber_g |-> 3, sugar_g |-> 4, serving |-> "1 cup"]
EstEmpty == [k \in {} |-> 0]
EstSalad ==
    [meal_name |-> "Salad", calories |-> 220, protein_g |-> 6, carbs_g |-> 12,
     fat_g |-> 15, fiber_g |-> 4, sugar_g |-> 3, serving |-> ""]

VisionResponses == {EstOatmeal, EstBare, EstNoProtein, EstEmpty}
LedgerInputs == VisionResponses \cup {EstSalad}

\* keys log_meal subscripts (n["..."]) and add_meal formats (info["..."])
RequiredKeys == {"calories", "protein_g", "carbs_g", "fat_g"}

----------------------------------------------------------------------------
(* Meal ledger: table meals *)

ExpectedCols ==
    {"calories", "protein_g", "carbs_g", "fat_g", "fiber_g", "sugar_g", "serving", "ts"}

CreateCols == {"id", "log_date", "meal_name"} \cup ExpectedCols

MacroCols == {"calories", "protein_g", "carbs_g", "fat_g", "fiber_g", "sugar_g"}

RecordFields ==
    {"log_date", "meal_name", "ts", "serving"} \cup MacroCols

\* SELECT list of today_df
SelectCols ==
    {"id", "meal_name", "ts", "serving", "calories", "protein_g", "carbs_g", "fat_g"}

\* the four columns the dashboard sums
SumCols == {"calories", "protein_g", "carbs_g", "fat_g"}

\* init_db: CREATE TABLE IF NOT EXISTS, then ALTER TABLE ADD COLUMN for each
\* expected column the table lacks.  ADD COLUMN has no DEFAULT and no UPDATE
\* follows: the rows stay as stored, and a row read in a column it holds no
\* cell for reads NULL.
InitDbColumns(cols) ==
    LET created == IF cols = {} THEN CreateCols ELSE cols
    IN  created \cup (ExpectedCols \ created)

\* a plausible slip: the table is dropped and created again on every start
InitDbRowsRecreated(rows) == <<>>

InitDbRows(rows) == rows

\* a cell is NULL when the row stores nothing in that column
IsNull(row, col) == col \notin DOMAIN row

Ids(rows) == {rows[i].id : i \in DOMAIN rows}

MaxOf(S) == CHOOSE m \in S : \A x \in S : x <= m

\* INTEGER PRIMARY KEY without AUTOINCREMENT: largest rowid + 1
NextId(rows) == IF rows = <<>> THEN 1 ELSE MaxOf(Ids(rows)) + 1

\* a plausible slip: two values of the positional INSERT tuple change places
MealRowSwapped(id, day, ts, name, serving, n) ==
    [id |-> id, log_date |-> day, meal_name |-> name, ts |-> ts, serving |-> serving,
     calories |-> n["calories"], protein_g |-> n["protein_g"],
     carbs_g |-> n["fat_g"], fat_g |-> n["carbs_g"],
     fiber_g |-> Get(n, "fiber_g", 0), sugar_g |-> Get(n, "sugar_g", 0)]

\* the tuple log_meal binds to its INSERT
MealRow(id, day, ts, name, serving, n) ==
    [id |-> id, log_date |-> day, meal_name |-> name, ts |-> ts, serving |-> serving,
     calories |-> n["calories"], protein_g |-> n["protein_g"],
     carbs_g |-> n["carbs_g"], fat_g |-> n["fat_g"],
     fiber_g |-> Get(n, "fiber_g", 0), sugar_g |-> Get(n, "sugar_g", 0)]

\* log_meal raises before its INSERT when n lacks a subscripted key (KeyError)
\* or the table lacks a column (OperationalError)
LogMealOk(cols, n) == RequiredKeys \subseteq DOMAIN n /\ CreateCols \subseteq cols

log_meal(rows, day, ts, name, serving, n) ==
    Append(rows, MealRow(NextId(rows), day, ts, name, serving, n))

\* a plausible slip: DELETE ... WHERE id <= ?
delete_meal_upto(rows, row_id) == SelectSeq(rows, LAMBDA r : r.id > row_id)

delete_meal(rows, row_id) == SelectSeq(rows, LAMBDA r : r.id # row_id)

\* one row of the SELECT: the selected columns, NULL cells left out
Project(row) == [c \in SelectCols \cap DOMAIN row |-> row[c]]

ProjectAll(rows) == [i \in DOMAIN rows |-> Project(rows[i])]

\* a plausible slip: the SELECT without its WHERE clause
today_df_all(rows, day) == ProjectAll(rows)

today_df(rows, day) == ProjectAll(SelectSeq(rows, LAMBDA r : r.log_date = day))

\* DataFrame column sum: NULL (NaN) cells are skipped, the empty sum is 0
RECURSIVE SumCol(_, _)
SumCol(df, col) ==
    IF df = <<>> THEN 0
    ELSE Get(Head(df), col, 0) + SumCol(Tail(df), col)

\* the sums dashboard() computes from today_df()
Aggregate == [c \in SumCols |-> SumCol(today_df(meals, today), c)]

----------------------------------------------------------------------------
(* Nutrition calculator *)

Sexes == {"Male", "Female"}

\* multipliers in fortieths: 1.2, 1.375, 1.55, 1.725, 1.9
ACTIVITY ==
    [Sedentary |-> 48, Light |-> 55, Moderate |-> 62, Heavy |-> 69, Athlete |-> 76]

\* multipliers in twentieths: 0.8, 1.0, 1.15
GOALS == [Lose |-> 16, Maintain |-> 20, Gain |-> 23]

\* a plausible slip: the weight term subtracted
mifflin_minus_weight(sex, kg, cm, age) ==
    (25 * cm - 40 * kg - 20 * age) + (IF sex = "Male" THEN 20 ELSE -644)

\* 10*kg + 6.25*cm - 5*age + (5 if Male else -161), in quarter kcal
mifflin(sex, kg, cm, age) ==
    (40 * kg + 25 * cm - 20 * age) + (IF sex = "Male" THEN 20 ELSE -644)

\* tdee = bmr * ACTIVITY[act] * GOALS[goal], in 1/3200 kcal
Tdee(p) == mifflin(p.sex, p.wt, p.ht, p.age) * ACTIVITY[p.act] * GOALS[p.goal]

\* the values the profile editor's widgets allow, sampled at and next to their limits
Ages == {10, 30, 100}
Weights == {30, 70, 250}
Heights == {120, 175, 250}

ProfileGrid ==
    [sex : Sexes, age : Ages, wt : Weights, ht : Heights,
     act : DOMAIN ACTIVITY, goal : DOMAIN GOALS]

\* the editor's default widget values
DefaultProfile ==
    [sex |-> "Male", age |-> 30, wt |-> 70, ht |-> 175, act |-> "Sedentary", goal |-> "Lose"]
Profiles == {DefaultProfile}

----------------------------------------------------------------------------
(* History variables *)

Ev(op, id, ok) == [op |-> op, id |-> id, ok |-> ok]

ZeroTotals == [d \in Days |-> [c \in SumCols |-> 0]]

\* add (sign 1) or take away (sign -1) what a stored row counts for on its day
Count(tot, row, sign) ==
    [tot EXCEPT ![row.log_date] =
        [c \in SumCols |-> @[c] + sign * (IF c \in DOMAIN row THEN row[c] ELSE 0)]]

\* totals after a delete_meal(id): every stored row of that id leaves the count
RECURSIVE Uncount(_, _, _)
Uncount(tot, rows, id) ==
    IF rows = <<>> THEN tot
    ELSE Uncount(IF Head(rows).id = id THEN Count(tot, Head(rows), -1) ELSE tot,
                 Tail(rows), id)

----------------------------------------------------------------------------
(* Initial state: the database file as an earlier run, or an earlier version *)
(* of the table, left it; no script run yet.                                *)

\* a row of the day before, stored when the table had three columns
LegacyRow == [id |-> 1, log_date |-> 0, meal_name |-> "Toast"]

InitialDatabases ==
    { [columns |-> {}, meals |-> <<>>],
      [columns |-> {"id", "log_date", "meal_name"}, meals |-> <<LegacyRow>>] }

Init ==
    /\ \E db \in InitialDatabases :
          /\ columns = db.columns
          /\ meals = db.meals
          /\ totals = IF db.meals = <<>> THEN ZeroTotals
                      ELSE Count(ZeroTotals, db.meals[1], 1)
    /\ today = 1
    /\ profile = None
    /\ view = "profile"
    /\ analysis = None
    /\ up = None
    /\ name_in = ""
    /\ navIndex = "none"
    /\ rendered = "none"
    /\ err = NoError
    /\ target = 0
    /\ event = Ev("start", 0, TRUE)
    /\ lastRec = None

----------------------------------------------------------------------------
(* The script run *)

\* a plausible slip: a new session lands on the add-meal view
InitialViewAdd(prof) == "add"

\* line 231: the view a new session starts in
InitialView(prof) == IF prof = None THEN "profile" ELSE "dashboard"

\* add_meal's info block: the subscripts info["..."] raise KeyError before the
\* "Add to My Meals" button is reached
RenderAdd(info) ==
    IF Truthy(info) /\ ~(RequiredKeys \subseteq DOMAIN info) THEN "KeyError"
    ELSE NoError

\* the router's match, with dashboard()'s redirect (view = "profile"; rerun())
\* when no profile is held
Render(v, prof, info) ==
    CASE v = "dashboard" /\ prof # None ->
            [view |-> "dashboard", rendered |-> "dashboard", err |-> NoError,
             target |-> Tdee(prof)]
      [] v = "add" ->
            [view |-> "add", rendered |-> "add", err |-> RenderAdd(info), target |-> 0]
      [] OTHER ->
            [view |-> "profile", rendered |-> "profile", err |-> NoError, target |-> 0]

\* One run of the script to its end with session values v, prof, info and widget
\* values upl, nm: render_nav() drew the radio with the index of view idx,
\* then init_db(), then the router.  A widget the run does not render loses its
\* value.
Run(v, prof, info, upl, nm, idx) ==
    LET r == Render(v, prof, info)
    IN  /\ columns' = InitDbColumns(columns)
        /\ navIndex' = IF prof = None THEN "none" ELSE idx
        /\ view' = r.view
        /\ rendered' = r.rendered
        /\ err' = r.err
        /\ target' = r.target
        /\ up' = IF r.rendered = "add" THEN upl ELSE None
        /\ name_in' = IF r.rendered = "add" THEN nm ELSE ""

\* a plausible slip: the button drawn before the info block's subscripts
SaveButtonBeforeBlock == rendered = "add" /\ Truthy(analysis)

\* the last run drew the "Add to My Meals" button
SaveButtonShown == rendered = "add" /\ err = NoError /\ Truthy(analysis)

----------------------------------------------------------------------------
(* User interactions of the controller *)

\* A browser opens or reloads the page: a new session (lines 228-231), then
\* the first run.
Load ==
    /\ profile' = None
    /\ analysis' = None
    /\ Run(InitialView(None), None, None, None, "", "none")
    /\ meals' = InitDbRows(meals)
    /\ event' = Ev("other", 0, TRUE)
    /\ lastRec' = None
    /\ UNCHANGED <<today, totals>>

\* profile_editor: "Save" stores the whole profile, sets the view and reruns
SaveProfile(p) ==
    /\ rendered = "profile"
    /\ profile' = p
    /\ Run("dashboard", p, analysis, up, name_in, "dashboard")
    /\ meals' = InitDbRows(meals)
    /\ event' = Ev("other", 0, TRUE)
    /\ lastRec' = None
    /\ UNCHANGED <<today, analysis, totals>>

\* render_nav: the radio is drawn only while a profile is held.  A radio is the
\* same widget from run to run while its parameters, index= among them, are the
\* same: the run takes the user's choice when the radio on screen was drawn with
\* the index of the current view, and the new radio's default, the current
\* view, otherwise.
NavChoice(v) == IF navIndex = view THEN v ELSE view

Navigate(v) ==
    /\ navIndex # "none"
    /\ profile # None
    /\ Run(NavChoice(v), profile, analysis, up, name_in, view)
    /\ meals' = InitDbRows(meals)
    /\ event' = Ev("other", 0, TRUE)
    /\ lastRec' = None
    /\ UNCHANGED <<today, profile, analysis, totals>>

\* dashboard: "Edit Profile"
EditProfile ==
    /\ rendered = "dashboard"
    /\ Run("profile", profile, analysis, up, name_in, "profile")
    /\ meals' = InitDbRows(meals)
    /\ event' = Ev("other", 0, TRUE)
    /\ lastRec' = None
    /\ UNCHANGED <<today, profile, analysis, totals>>

\* dashboard: the delete button of a row of today_df(), then rerun
DeleteClick(id) ==
    /\ rendered = "dashboard"
    /\ id \in Ids(today_df(meals, today))
    /\ meals' = delete_meal(InitDbRows(meals), id)
    /\ totals' = Uncount(totals, meals, id)
    /\ Run("dashboard", profile, analysis, up, name_in, "dashboard")
    /\ event' = Ev("delete", id, TRUE)
    /\ lastRec' = None
    /\ UNCHANGED <<today, profile, analysis>>

\* add_meal: the user picks another file, or removes the file
Upload(f) ==
    /\ rendered = "add"
    /\ f # up
    /\ Run("add", profile, analysis, f, name_in, "add")
    /\ meals' = InitDbRows(meals)
    /\ event' = Ev("upload", 0, TRUE)
    /\ lastRec' = None
    /\ UNCHANGED <<today, profile, analysis, totals>>

\* add_meal: the user edits the meal description
TypeName(s) ==
    /\ rendered = "add"
    /\ s # name_in
    /\ Run("add", profile, analysis, up, s, "add")
    /\ meals' = InitDbRows(meals)
    /\ event' = Ev("other", 0, TRUE)
    /\ lastRec' = None
    /\ UNCHANGED <<today, profile, analysis, totals>>

\* what vision_estimate does: raise (the request fails, or json.loads rejects
\* the content), or return the parsed object as it is.  st.cache_resource
\* replays an earlier return value for the same bytes and label: one of the
\* values below again.
VisionOutcomes ==
    {[raises |-> "APIError"], [raises |-> "JSONDecodeError"]}
        \cup {[returns |-> d] : d \in VisionResponses}

\* add_meal: "Analyze", drawn only while a file is uploaded
Analyze(o) ==
    /\ rendered = "add"
    /\ up # None
    /\ IF "raises" \in DOMAIN o
       THEN /\ columns' = InitDbColumns(columns)
            /\ navIndex' = view
            /\ err' = o.raises
            /\ event' = Ev("analyze", 0, FALSE)
            /\ UNCHANGED <<view, rendered, target, up, name_in, analysis>>
       ELSE /\ analysis' = o.returns
            /\ Run("add", profile, o.returns, up, name_in, "add")
            /\ event' = Ev("analyze", 0, RequiredKeys \subseteq DOMAIN o.returns)
    /\ meals' = InitDbRows(meals)
    /\ lastRec' = None
    /\ UNCHANGED <<today, profile, totals>>

\* line 466
FinalName(nm, info) ==
    IF Strip(nm) # "" THEN Strip(nm) ELSE Get(info, "meal_name", "Untitled meal")

\* add_meal: "Add to My Meals": log_meal, pop the analysis, go to the
\* dashboard, rerun
Confirm(ts) ==
    /\ SaveButtonShown
    /\ Len(meals) < MaxMeals
    /\ NextId(meals) <= IdCap(MaxMeals)
    /\ LET name == FinalName(name_in, analysis)
           serving == Get(analysis, "serving", "1 serving")
       IN  IF LogMealOk(InitDbColumns(columns), analysis)
           THEN /\ meals' = log_meal(InitDbRows(meals), today, ts, name, serving, analysis)
                /\ totals' = Count(totals, meals'[Len(meals')], 1)
                /\ lastRec' = MealRow(0, today, ts, name, serving, analysis)
                /\ analysis' = None
                            /\ Run("dashboard", profile, None, up, name_in, "dashboard")
                /\ event' = Ev("confirm", NextId(meals), TRUE)
           ELSE /\ columns' = InitDbColumns(columns)
                /\ navIndex' = view
                /\ err' = "KeyError"
                /\ event' = Ev("confirm", 0, FALSE)
                /\ lastRec' = None
                /\ UNCHANGED <<meals, totals, analysis, view, rendered,
                               target, up, name_in>>
    /\ UNCHANGED <<today, profile>>

\* midnight passes
Tick ==
    /\ today < MaxDay
    /\ today' = today + 1
    /\ UNCHANGED <<columns, meals, profile, view, analysis, up, name_in, navIndex,
                   rendered, err, target, event, lastRec, totals>>

Next ==
    \/ Load
    \/ \E p \in Profiles : SaveProfile(p)
    \/ \E v \in {"dashboard", "add", "profile"} : Navigate(v)
    \/ EditProfile
    \/ \E id \in 1..IdCap(MaxMeals) : DeleteClick(id)
    \/ \E f \in Images \cup {None} : Upload(f)
    \/ \E s \in NameInputs : TypeName(s)
    \/ \E o \in VisionOutcomes : Analyze(o)
    \/ \E ts \in Times : Confirm(ts)
    \/ Tick

Spec == Init /\ [][Next]_vars

----------------------------------------------------------------------------
(* The ledger's functions called one at a time, as a test of the ledger     *)
(* calls them.  The script calls init_db() (line 491) before any view can   *)
(* reach another ledger function, so the other calls wait for the table.    *)

TableReady == CreateCols \subseteq columns

CallInitDb ==
    /\ columns' = InitDbColumns(columns)
    /\ meals' = InitDbRows(meals)
    /\ event' = Ev("init_db", 0, TRUE)
    /\ lastRec' = None
    /\ UNCHANGED <<today, totals, sessionVars>>

CallLogMeal(nm, n, ts) ==
    /\ TableReady
    /\ Len(meals) < MaxLedger
    /\ NextId(meals) <= IdCap(MaxLedger)
    /\ LET name == FinalName(nm, n)
           serving == Get(n, "serving", "1 serving")
       IN  IF LogMealOk(columns, n)
           THEN /\ meals' = log_meal(meals, today, ts, name, serving, n)
                /\ totals' = Count(totals, meals'[Len(meals')], 1)
                /\ lastRec' = MealRow(0, today, ts, name, serving, n)
                /\ event' = Ev("log_meal", NextId(meals), TRUE)
           ELSE /\ event' = Ev("log_meal", 0, FALSE)
                /\ lastRec' = None
                /\ UNCHANGED <<meals, totals>>
    /\ UNCHANGED <<columns, today, sessionVars>>

CallDeleteMeal(id) ==
    /\ TableReady
    /\ meals' = delete_meal(meals, id)
    /\ totals' = Uncount(totals, meals, id)
    /\ event' = Ev("delete_meal", id, id \in Ids(meals))
    /\ lastRec' = None
    /\ UNCHANGED <<columns, today, sessionVars>>

LedgerNext ==
    \/ CallInitDb
    \/ \E nm \in {"", "Lunch"}, n \in LedgerInputs, ts \in Times : CallLogMeal(nm, n, ts)
    \/ \E id \in 1..(IdCap(MaxLedger) + 1) : CallDeleteMeal(id)
    \/ Tick

LedgerSpec == Init /\ [][LedgerNext]_vars

----------------------------------------------------------------------------
(* The profile editor and the dashboard's target over the editor's range *)

CalcNext ==
    \/ Load
    \/ \E p \in ProfileGrid : SaveProfile(p)
    \/ EditProfile

CalcSpec == Init /\ [][CalcNext]_vars

----------------------------------------------------------------------------
(* Properties *)

\* the step is the interaction or ledger call named op (a Tick keeps `event`)
Step(op) == event'.op = op /\ today' = today

C2_OnlyConfirmMutates == [][~Step("confirm") => meals' = meals]_vars

\* C2 amended: every step other than confirm-save and delete-meal leaves the
\* rows of the table unchanged
C2_OnlyConfirmAndDeleteMutate ==
    [][(~Step("confirm") /\ ~Step("delete")) => meals' = meals]_vars

\* C2 witness: a schema-migrating first run and a later analysis have acted on a
\* table that holds an older row and a row of today
C2_Witness ==
    /\ event.op = "analyze" /\ event.ok
    /\ Len(meals) = 2
    /\ IsNull(meals[1], "calories")

\* C3: once the table is initialised, the sums the dashboard computes for
\* today equal, field by field, the running total of the rows appended for
\* today and not deleted since; with no such row every sum is 0.
C3_AggregateIsSumOfLiveRows ==
    TableReady =>
        /\ Aggregate = totals[today]
        /\ today_df(meals, today) = <<>> => \A c \in SumCols : Aggregate[c] = 0

\* C3 witness: meals of 300, 450 and 220 kcal were appended today and the 450
\* one was deleted: 520 kcal remain
C3_Witness ==
    /\ event.op = "delete_meal" /\ event.ok
    /\ Len(today_df(meals, today)) = 2
    /\ Aggregate.calories = 520

\* the rows of df that equal rec in every field of a meal record
EqualRows(df, rec) ==
    {i \in DOMAIN df : \A f \in RecordFields : f \in DOMAIN df[i] /\ df[i][f] = rec[f]}

\* C4: after log_meal stored a record, the listing for the record's date holds
\* exactly one row equal to it in every field (the id aside)
C4_RoundTrip ==
    (event.op = "log_meal" /\ event.ok) =>
        Cardinality(EqualRows(today_df(meals, lastRec.log_date), lastRec)) = 1

\* C5: delete_meal(id) removes the row of that id and no other, keeps every other
\* row as it was and in order, and changes nothing when no row has that id, be
\* it a second call or an id the table never held
C5_DeleteIdempotent ==
    [][Step("delete_meal") =>
          LET id == event'.id
              kept == {i \in DOMAIN meals : meals[i].id # id}
          IN  /\ Ids(meals') = Ids(meals) \ {id}
              /\ Len(meals') = Cardinality(kept)
              /\ \A i \in kept : \E j \in DOMAIN meals' : meals'[j] = meals[i]
              /\ \A j \in DOMAIN meals' : \A k \in DOMAIN meals' :
                    j < k => meals'[j].id < meals'[k].id
              /\ id \notin Ids(meals) => meals' = meals
              /\ (event.op = "delete_meal" /\ event.id = id) => meals' = meals
      ]_vars

\* C5 witness: a delete found no row of its id in a table that holds rows
C5_Witness ==
    /\ event.op = "delete_meal" /\ ~event.ok
    /\ Len(meals) >= 2

\* C6: once init_db has run, no row holds NULL in a macro column
C6_MacrosBackfilled ==
    TableReady =>
        \A i \in DOMAIN meals : \A c \in MacroCols : ~IsNull(meals[i], c)

\* q is p with field f changed
Varies(p, q, f) == \A g \in DOMAIN p : g # f => q[g] = p[g]

\* C7: the target the dashboard shows is tdee = BMR * activity * goal of the
\* saved profile, is strictly positive, and is smaller than the target of any
\* profile of the editor's range that differs only by a larger weight, a larger
\* height, a larger activity multiplier or a larger goal multiplier
C7_TargetPositiveMonotone ==
    rendered = "dashboard" =>
        /\ target > 0
        /\ target =
             (40 * profile.wt + 25 * profile.ht - 20 * profile.age
                + (IF profile.sex = "Male" THEN 20 ELSE -644))
             * ACTIVITY[profile.act] * GOALS[profile.goal]
        /\ \A q \in ProfileGrid :
              /\ (Varies(profile, q, "wt") /\ q.wt > profile.wt) => Tdee(q) > target
              /\ (Varies(profile, q, "ht") /\ q.ht > profile.ht) => Tdee(q) > target
              /\ (Varies(profile, q, "act") /\ ACTIVITY[q.act] > ACTIVITY[profile.act])
                    => Tdee(q) > target
              /\ (Varies(profile, q, "goal") /\ GOALS[q.goal] > GOALS[profile.goal])
                    => Tdee(q) > target

\* C7 witness: Male, 30 years, 70 kg, 175 cm, Sedentary, Maintain: 1978.5 kcal
C7_Witness ==
    /\ rendered = "dashboard"
    /\ profile = [sex |-> "Male", age |-> 30, wt |-> 70, ht |-> 175,
                  act |-> "Sedentary", goal |-> "Maintain"]
    /\ 10 * target = 19785 * 3200

\* C8: while no profile is held the session's view is the profile editor, and
\* no run has rendered the dashboard or the add-meal view
C8_ProfileFirst ==
    profile = None => (view = "profile" /\ rendered \in {"none", "profile"})

\* C8 witness: a session that held a profile and logged a meal was reloaded and
\* shows the profile editor again
C8_Witness ==
    /\ profile = None /\ rendered = "profile"
    /\ today_df(meals, today) # <<>>

\* C9: a confirm-save step starts in the add-meal view with an estimate held,
\* appends exactly one row, built from that estimate, clears the estimate and
\* ends on the dashboard
C9_ConfirmSave ==
    [][Step("confirm") =>
          /\ view = "add" /\ rendered = "add"
          /\ Truthy(analysis)
          /\ RequiredKeys \subseteq DOMAIN analysis
          /\ Len(meals') = Len(meals) + 1
          /\ SubSeq(meals', 1, Len(meals)) = meals
          /\ LET r == meals'[Len(meals')]
             IN  /\ r.id \notin Ids(meals)
                 /\ r.log_date = today
                 /\ \A c \in RequiredKeys : r[c] = analysis[c]
                 /\ r.fiber_g = Get(analysis, "fiber_g", 0)
                 /\ r.sugar_g = Get(analysis, "sugar_g", 0)
                 /\ r.serving = Get(analysis, "serving", "1 serving")
                 /\ r.meal_name \in
                      {Strip(name_in), Get(analysis, "meal_name", "Untitled meal")}
                 /\ r.meal_name # ""
          /\ analysis' = None
          /\ view' = "dashboard" /\ rendered' = "dashboard"
      ]_vars

\* C9 witness: an estimate without the optional keys was saved under the user's
\* description
C9_Witness ==
    /\ event.op = "confirm" /\ event.ok
    /\ rendered = "dashboard" /\ analysis = None
    /\ \E i \in DOMAIN meals :
          /\ meals[i].id = event.id
          /\ meals[i].meal_name = "Lunch"
          /\ meals[i].calories = 450
          /\ meals[i].serving = "1 serving"

\* C10: a new upload (or the removal of the upload) stays in the add-meal view
\* and clears the held estimate: no estimate of an earlier analyze is left for
\* confirm-save to persist
C10_UploadClearsEstimate ==
    [][Step("upload") => (view' = "add" /\ ~SaveButtonShown')]_vars

====
